---- MODULE Spec2Model ----
(***************************************************************************)
(* Model of floki's image module (src/image.rs): the Image specification,  *)
(* its deserialization, name(), obtain_image(), pull_image() and           *)
(* image_exists_locally(), together with the external docker processes     *)
(* these functions spawn and wait for.                                     *)
(*                                                                         *)
(* Strings are sequences of one-character strings, so that splitting a key *)
(* on '.', parsing a segment as usize and appending ":floki" are computed. *)
(***************************************************************************)
EXTENDS Integers, Sequences, FiniteSets, TLC

\* ------------------------------------------------------------------ bounds

\* Longest yaml key (in characters) tried by name().
MaxKeyLen == 3

\* Largest exit code a docker process ends with.
MaxExitCode == 2

\* ------------------------------------------------------------- text values

foo == <<"f", "o", "o">>
bar == <<"b", "a", "r">>
nox == <<"n", "o", "x">>
builder == <<"b", "u", "i", "l", "d", "e", "r">>
DockerfileTest == <<"D", "o", "c", "k", "e", "r", "f", "i", "l", "e", ".", "t", "e", "s", "t">>
ContextDir == <<".", "/", "c", "o", "n", "t", "e", "x", "t">>
FlokiSuffix == <<":", "f", "l", "o", "k", "i">>

None == [kind |-> "None"]
Some(x) == [kind |-> "Some", val |-> x]

Ok(x) == [kind |-> "Ok", val |-> x]
Err(e) == [kind |-> "Err", err |-> e]
Panic == [kind |-> "Panic"]

\* ------------------------------------------------------- default functions

default_dockerfile == <<"D", "o", "c", "k", "e", "r", "f", "i", "l", "e">>

default_context == <<".">>

\* ------------------------------------------------------------ struct types

BuildSpec(n, d, c, t) == [name |-> n, dockerfile |-> d, context |-> c, target |-> t]

YamlSpec(file, key) == [file |-> file, key |-> key]

ImageName(s) == [variant |-> "Name", s |-> s]
ImageBuild(b) == [variant |-> "Build", build |-> b]
ImageYaml(y) == [variant |-> "Yaml", yaml |-> y]

\* ------------------------------------------------- configuration entries

\* A configuration value as serde sees it: a string scalar, an integer scalar
\* or a mapping from field names to values.
CStr(s) == [kind |-> "String", v |-> s]
CInt(i) == [kind |-> "Integer", v |-> i]
CMap(m) == [kind |-> "Map", v |-> m]

HasField(c, f) == c.kind = "Map" /\ f \in DOMAIN c.v

\* String and PathBuf fields accept a string scalar only.
IsString(c) == c.kind = "String"

\* #[derive(Deserialize)] struct BuildSpec: name required, dockerfile and
\* context defaulted, target optional; unknown fields are ignored.
BuildSpecMatches(c) ==
    /\ HasField(c, "name") /\ IsString(c.v["name"])
    /\ HasField(c, "dockerfile") => IsString(c.v["dockerfile"])
    /\ HasField(c, "context") => IsString(c.v["context"])
    /\ HasField(c, "target") => IsString(c.v["target"])

DeserializeBuildSpec(c) ==
    BuildSpec(c.v["name"].v,
              IF HasField(c, "dockerfile") THEN c.v["dockerfile"].v ELSE default_dockerfile,
              IF HasField(c, "context") THEN c.v["context"].v ELSE default_context,
              IF HasField(c, "target") THEN Some(c.v["target"].v) ELSE None)

\* #[derive(Deserialize)] struct YamlSpec: file and key both required.
YamlSpecMatches(c) ==
    /\ HasField(c, "file") /\ IsString(c.v["file"])
    /\ HasField(c, "key") /\ IsString(c.v["key"])

DeserializeYamlSpec(c) == YamlSpec(c.v["file"].v, c.v["key"].v)

NoVariantMatched == [type |-> "serde::NoVariantMatched"]

\* #[serde(untagged)] enum Image: the variants are tried in declaration order
\* and the first that deserializes wins.
DeserializeImageYamlFirst(c) ==
    IF c.kind = "String" THEN Ok(ImageName(c.v))
    ELSE IF HasField(c, "yaml") /\ YamlSpecMatches(c.v["yaml"])
         THEN Ok(ImageYaml(DeserializeYamlSpec(c.v["yaml"])))
    ELSE IF HasField(c, "build") /\ BuildSpecMatches(c.v["build"])
         THEN Ok(ImageBuild(DeserializeBuildSpec(c.v["build"])))
    ELSE Err(NoVariantMatched)

DeserializeImage(c) ==
    IF c.kind = "String" THEN Ok(ImageName(c.v))
    ELSE IF HasField(c, "build") /\ BuildSpecMatches(c.v["build"])
         THEN Ok(ImageBuild(DeserializeBuildSpec(c.v["build"])))
    ELSE IF HasField(c, "yaml") /\ YamlSpecMatches(c.v["yaml"])
         THEN Ok(ImageYaml(DeserializeYamlSpec(c.v["yaml"])))
    ELSE Err(NoVariantMatched)

\* ---------------------------------------------------------- yaml documents

\* yaml_rust::Yaml nodes.  A Hash is an insertion-ordered list of
\* <<key, value>> pairs whose keys are scalar nodes.
YString(s) == [kind |-> "String", v |-> s]
YInteger(i) == [kind |-> "Integer", v |-> i]
YArray(a) == [kind |-> "Array", v |-> a]
YHash(h) == [kind |-> "Hash", v |-> h]
BAD_VALUE == [kind |-> "BadValue", v |-> <<>>]

HashHas(h, k) == \E i \in 1..Len(h) : h[i][1] = k
HashGet(h, k) == h[CHOOSE i \in 1..Len(h) : h[i][1] = k][2]

\* Index<usize> for Yaml as it was before maps could be indexed by usize.
IndexUsizeArrayOnly(val, x) ==
    IF val.kind = "Array"
    THEN (IF x < Len(val.v) THEN val.v[x + 1] ELSE BAD_VALUE)
    ELSE BAD_VALUE

\* &val[x]: Index<usize> for Yaml.  A sequence is indexed by position, a map
\* by the integer key x; anything else, or a miss, is BAD_VALUE.
IndexUsize(val, x) ==
    IF val.kind = "Array"
    THEN (IF x < Len(val.v) THEN val.v[x + 1] ELSE BAD_VALUE)
    ELSE IF val.kind = "Hash"
    THEN (IF HashHas(val.v, YInteger(x)) THEN HashGet(val.v, YInteger(x)) ELSE BAD_VALUE)
    ELSE BAD_VALUE

\* &val[*key]: Index<&str> for Yaml.  Only a map is indexed, by the string key.
IndexStr(val, key) ==
    IF val.kind = "Hash" /\ HashHas(val.v, YString(key))
    THEN HashGet(val.v, YString(key))
    ELSE BAD_VALUE

\* val.as_str(): only a string scalar.
AsStr(val) == IF val.kind = "String" THEN Some(val.v) ELSE None

\* ------------------------------------------------------------- key parsing

Digits == {"0", "1"}
DigitValue(c) == IF c = "1" THEN 1 ELSE 0

KeyAlphabet == {"a", "0", "1", ".", "+"}
Keys == UNION {[1..n -> KeyAlphabet] : n \in 0..MaxKeyLen}

HasDot(s) == \E i \in 1..Len(s) : s[i] = "."
FirstDot(s) == CHOOSE i \in 1..Len(s) : s[i] = "." /\ \A j \in 1..(i - 1) : s[j] # "."

\* yaml.key.split('.').collect::<Vec<_>>(): never empty; "" gives [""].
RECURSIVE Split(_)
Split(s) ==
    IF ~HasDot(s) THEN <<s>>
    ELSE <<SubSeq(s, 1, FirstDot(s) - 1)>> \o Split(SubSeq(s, FirstDot(s) + 1, Len(s)))

RECURSIVE Decimal(_)
Decimal(ds) ==
    IF Len(ds) = 0 THEN 0
    ELSE 10 * Decimal(SubSeq(ds, 1, Len(ds) - 1)) + DigitValue(ds[Len(ds)])

\* key.parse::<usize>(): an optional '+', then one or more decimal digits.
\* (No key within MaxKeyLen characters overflows usize.)
UnsignedBody(seg) == IF Len(seg) > 0 /\ seg[1] = "+" THEN Tail(seg) ELSE seg
ParsesAsUsize(seg) ==
    /\ Len(UnsignedBody(seg)) > 0
    /\ \A i \in 1..Len(UnsignedBody(seg)) : UnsignedBody(seg)[i] \in Digits
ParseUsize(seg) == Decimal(UnsignedBody(seg))

\* One turn of the loop over the path.
Step(val, key) ==
    IF ParsesAsUsize(key) THEN IndexUsize(val, ParseUsize(key)) ELSE IndexStr(val, key)

\* The nodes visited by the loop: the start node, then one node per segment.
RECURSIVE PathNodes(_, _)
PathNodes(val, path) ==
    IF Len(path) = 0 THEN <<val>>
    ELSE <<val>> \o PathNodes(Step(val, Head(path)), Tail(path))

Last(s) == s[Len(s)]

\* ------------------------------------------------------------- file system

MissingYaml == <<"m">>
BadYaml == <<"b">>
EmptyYaml == <<"e">>
OneYaml == <<"o">>
TwoYaml == <<"t">>
Files == {MissingYaml, BadYaml, EmptyYaml, OneYaml, TwoYaml}

IoError(what) == [type |-> "io::Error", during |-> what]
ScanError == [type |-> "yaml_rust::ScanError"]

\* fs::read_to_string(&yaml.file): the contents, named by the file holding them.
ReadToString(file) ==
    IF file = MissingYaml THEN Err(IoError("read_to_string")) ELSE Ok(file)

\* The documents of OneYaml: one map, with string keys, integer keys, a nested
\* sequence and an integer scalar.
OneYamlDoc ==
    YHash(<< <<YString(<<"a">>),
               YArray(<<YString(foo),
                        YHash(<< <<YString(<<"a">>), YString(bar)>>,
                                 <<YInteger(1), YString(foo)>> >>)>>)>>,
             <<YInteger(1), YString(bar)>>,
             <<YString(<<"1">>), YString(nox)>>,
             <<YString(<<"0">>), YString(foo)>>,
             <<YString(<<"a", "a">>), YInteger(1)>>,
             <<YString(<<>>), YString(nox)>> >>)

\* The documents of TwoYaml: a sequence, then a map.
TwoYamlDocs ==
    << YArray(<<YString(foo), YHash(<< <<YString(<<"a">>), YString(bar)>> >>)>>),
       YHash(<< <<YString(<<"a">>), YString(nox)>> >>) >>

\* YamlLoader::load_from_str(&contents): the top-level documents, or a scan error.
LoadFromStr(contents) ==
    IF contents = BadYaml THEN Err(ScanError)
    ELSE IF contents = EmptyYaml THEN Ok(<<>>)
    ELSE IF contents = OneYaml THEN Ok(<<OneYamlDoc>>)
    ELSE Ok(TwoYamlDocs)

\* --------------------------------------------------------------- Image::name

FailedToFindYamlKey(key, file) ==
    [type |-> "FailedToFindYamlKey", key |-> key, file |-> file]

\* The nodes the loop of name() visits, when the file loads and holds a document.
Visited(yaml) ==
    PathNodes(LoadFromStr(ReadToString(yaml.file).val).val[1], Split(yaml.key))

Loads(yaml) ==
    /\ ReadToString(yaml.file).kind = "Ok"
    /\ LoadFromStr(ReadToString(yaml.file).val).kind = "Ok"

HasDocument(yaml) == Len(LoadFromStr(ReadToString(yaml.file).val).val) > 0

name(self) ==
    IF self.variant = "Name" THEN Ok(self.s)
    ELSE IF self.variant = "Build" THEN Ok(self.build.name \o FlokiSuffix)
    ELSE LET contents == ReadToString(self.yaml.file) IN
         IF contents.kind = "Err" THEN contents
         ELSE LET raw == LoadFromStr(contents.val) IN
              IF raw.kind = "Err" THEN raw
              ELSE IF Len(raw.val) = 0 THEN Panic
              ELSE LET val == Last(PathNodes(raw.val[1], Split(self.yaml.key))) IN
                   IF AsStr(val).kind = "Some" THEN Ok(AsStr(val).val)
                   ELSE Err(FailedToFindYamlKey(self.yaml.key, self.yaml.file))

\* ------------------------------------------------------ external processes

\* std::process::ExitStatus: an exit code, or none when a signal ended it.
Exited(code) == [code |-> Some(code)]
Signaled == [code |-> None]
Success(exit_status) == exit_status.code = Some(0)

FlokiSubprocessExitStatus(description, exit_status) ==
    [process_description |-> description, exit_status |-> exit_status]

FailedToBuildImage(image, exit_status) ==
    [type |-> "FailedToBuildImage", image |-> image, exit_status |-> exit_status]
FailedToPullImage(image, exit_status) ==
    [type |-> "FailedToPullImage", image |-> image, exit_status |-> exit_status]
FailedToCheckForImage(image, error) ==
    [type |-> "FailedToCheckForImage", image |-> image, error |-> error]

\* Path::join: an absolute right-hand side replaces the left-hand side.
Join(root, path) ==
    IF Len(path) > 0 /\ path[1] = "/" THEN path ELSE root \o <<"/">> \o path

\* The arguments given to docker by obtain_image.
BuildArgs(self, floki_root) ==
    <<"build", "-t", name(self).val, "-f", Join(floki_root, self.build.dockerfile)>>
    \o (IF self.build.target.kind = "Some"
        THEN <<"--target", self.build.target.val>> ELSE <<>>)
    \o <<Join(floki_root, self.build.context)>>

\* obtain_image once wait() has given the exit status, ignoring the status.
BuildResultIgnoringStatus(self, exit_status) == name(self)

\* obtain_image once wait() has given the exit status.
BuildResult(self, exit_status) ==
    IF Success(exit_status) THEN name(self)
    ELSE IF name(self).kind # "Ok" THEN name(self)
    ELSE Err(FailedToBuildImage(name(self).val,
                 FlokiSubprocessExitStatus(<<"docker", " ", "build">>, exit_status)))

\* obtain_image for the other variants, handing back the key unresolved.
PassThroughUnresolved(self) ==
    IF self.variant = "Yaml" THEN Ok(self.yaml.key) ELSE name(self)

\* obtain_image for the variants that are not built.
PassThrough(self) == name(self)

PullArgs(image) == <<"pull", image>>

\* pull_image once wait() has given the exit status, with the test inverted.
PullResultInverted(image, exit_status) ==
    IF ~Success(exit_status) THEN Ok(<<>>)
    ELSE Err(FailedToPullImage(image,
                 FlokiSubprocessExitStatus(<<"docker", " ", "pull">>, exit_status)))

\* pull_image once wait() has given the exit status.
PullResult(image, exit_status) ==
    IF Success(exit_status) THEN Ok(<<>>)
    ELSE Err(FailedToPullImage(image,
                 FlokiSubprocessExitStatus(<<"docker", " ", "pull">>, exit_status)))

\* The inspect invocation with the image name hard-coded.
HistoryArgsHardCoded(image) == <<"history", foo>>

HistoryArgs(image) == <<"history", image>>

\* image_exists_locally with a failed status() taken as "does not exist".
ExistsResultLenient(image, ret) ==
    IF ret.kind = "Err" THEN Ok(FALSE) ELSE Ok(ret.val.code = Some(0))

\* image_exists_locally from what status() returned.
ExistsResult(image, ret) ==
    IF ret.kind = "Err" THEN Err(FailedToCheckForImage(image, ret.err))
    ELSE Ok(ret.val.code = Some(0))

\* Child::wait returning without the child having ended.
WaitReturnsEarly(child) == child.state # "none"

\* Child::wait blocks until the child has ended; it returns only then, with
\* the exit status or with an error.
WaitReturns(child) == child.state = "exited"

\* ------------------------------------------------------------------ inputs

\* Configuration entries handed to the deserializer.
BuildFieldValue(f) ==
    IF f = "name" THEN CStr(foo)
    ELSE IF f = "dockerfile" THEN CStr(DockerfileTest)
    ELSE IF f = "context" THEN CStr(ContextDir)
    ELSE CStr(builder)

BuildValues ==
    {CMap([f \in D |-> BuildFieldValue(f)]) :
        D \in SUBSET {"name", "dockerfile", "context", "target"}}
    \cup {CMap([f \in {"name"} |-> CInt(1)]), CStr(foo)}

YamlValue(file, key) ==
    CMap([f \in {"file", "key"} |-> IF f = "file" THEN CStr(file) ELSE CStr(key)])

YamlValues == {YamlValue(file, key) : file \in Files, key \in Keys}

PartialYamlValues ==
    {CMap([f \in D |-> IF f = "file" THEN CStr(OneYaml) ELSE CStr(<<"a", ".", "0">>)]) :
        D \in SUBSET {"file", "key"}}

Entries ==
    {CStr(s) : s \in {foo, bar}}
    \cup {CInt(1)}
    \cup {CMap([f \in {"build"} |-> b]) : b \in BuildValues}
    \cup {CMap([f \in {"yaml"} |-> y]) : y \in YamlValues \cup PartialYamlValues}
    \cup {CMap([f \in {"build", "yaml"} |-> IF f = "build" THEN b ELSE y]) :
             b \in BuildValues, y \in PartialYamlValues}

\* The Image values a configuration can hold.
Images == {DeserializeImage(e).val : e \in {x \in Entries : DeserializeImage(x).kind = "Ok"}}

Roots == {<<"/", "r">>}

\* Image names asked of the registry operations.
ImageNames == {foo, bar, nox}

\* ------------------------------------------------------------ docker itself

\* Images the remote registry serves.
Registry == {foo, bar}

\* How a launched docker process may end: by itself with an exit code, or by a
\* signal.  A pull ends with 0 only for an image the registry serves, a history
\* ends with 0 exactly for an image of the local store.
Outcomes(argv, images) ==
    {Signaled} \cup
    (IF argv[1] = "build" THEN {Exited(c) : c \in 0..MaxExitCode}
     ELSE IF argv[1] = "pull"
     THEN {Exited(c) : c \in 1..MaxExitCode}
          \cup (IF argv[2] \in Registry THEN {Exited(0)} ELSE {})
     ELSE IF argv[2] \in images THEN {Exited(0)}
     ELSE {Exited(c) : c \in 1..MaxExitCode})

\* The local store once the process has ended.
StoreAfter(argv, exit_status, images) ==
    IF ~Success(exit_status) THEN images
    ELSE IF argv[1] = "build" THEN images \cup {argv[3]}
    ELSE IF argv[1] = "pull" THEN images \cup {argv[2]}
    ELSE images

\* ------------------------------------------------------------------- state

VARIABLES
    pc,       \* where the calling thread is: "idle", or waiting inside a call
    call,     \* the call being made, or the last one made
    result,   \* what the last call returned
    proc,     \* the child process of the current call
    started,  \* how many processes the current call has spawned
    waited,   \* how wait() on the child ended: "none", "ok" or "err"
    store,    \* docker's local image store
    pulled,   \* the names pull_image has returned Ok(()) for
    trace     \* the nodes visited by the last name() on a Yaml image

vars == <<pc, call, result, proc, started, waited, store, pulled, trace>>

Pending == [code |-> None]
NoProc == [state |-> "none", argv |-> <<>>, status |-> Pending]
Running(argv) == [state |-> "running", argv |-> argv, status |-> Pending]

Init ==
    /\ pc = "idle"
    /\ call = [op |-> "none"]
    /\ result = None
    /\ proc = NoProc
    /\ started = 0
    /\ waited = "none"
    /\ store \in {{}, {bar}}
    /\ pulled = {}
    /\ trace = <<>>

\* The caller is between two calls, the last result taken.
Ready == pc = "idle" /\ call.op = "none"

\* serde_yaml::from_str of a configuration entry.
Deserialize ==
    /\ Ready
    /\ \E entry \in Entries :
          /\ call' = [op |-> "deserialize", entry |-> entry]
          /\ result' = DeserializeImage(entry)
    /\ proc' = NoProc
    /\ started' = 0 /\ waited' = "none" /\ trace' = <<>>
    /\ UNCHANGED <<pc, store, pulled>>

\* Image::name.
Name ==
    /\ Ready
    /\ \E self \in Images :
          /\ call' = [op |-> "name", self |-> self]
          /\ result' = name(self)
          /\ trace' = IF self.variant = "Yaml" /\ Loads(self.yaml) /\ HasDocument(self.yaml)
                      THEN Visited(self.yaml) ELSE <<>>
    /\ proc' = NoProc
    /\ started' = 0 /\ waited' = "none"
    /\ UNCHANGED <<pc, store, pulled>>

\* Image::obtain_image up to spawn(): the Build variant launches docker build,
\* which may fail to start; the other variants return name().
ObtainImage ==
    /\ Ready
    /\ \E self \in Images, floki_root \in Roots :
          /\ call' = [op |-> "obtain_image", self |-> self, floki_root |-> floki_root]
          /\ IF self.variant = "Build"
             THEN \/ /\ proc' = Running(BuildArgs(self, floki_root))
                     /\ started' = 1
                     /\ result' = None
                     /\ pc' = "obtain_wait"
                  \/ /\ proc' = NoProc
                     /\ started' = 0
                     /\ result' = Err(IoError("spawn"))
                     /\ pc' = "idle"
             ELSE /\ proc' = NoProc
                  /\ started' = 0
                  /\ result' = PassThrough(self)
                  /\ pc' = "idle"
    /\ waited' = "none" /\ trace' = <<>>
    /\ UNCHANGED <<store, pulled>>

\* Image::obtain_image from wait() on: wait() gives the exit status, or fails
\* because the ended child is no longer there to be collected.
ObtainImageWait ==
    /\ pc = "obtain_wait"
    /\ WaitReturns(proc)
    /\ \/ /\ waited' = "ok"
          /\ result' = BuildResult(call.self, proc.status)
       \/ /\ waited' = "err"
          /\ result' = Err(IoError("wait"))
    /\ pc' = "idle"
    /\ UNCHANGED <<call, proc, started, store, pulled, trace>>

\* pull_image up to spawn().
PullImage ==
    /\ Ready
    /\ \E image \in ImageNames :
          /\ call' = [op |-> "pull_image", image |-> image]
          /\ \/ /\ proc' = Running(PullArgs(image))
                /\ started' = 1
                /\ result' = None
                /\ pc' = "pull_wait"
             \/ /\ proc' = NoProc
                /\ started' = 0
                /\ result' = Err(IoError("spawn"))
                /\ pc' = "idle"
    /\ waited' = "none" /\ trace' = <<>>
    /\ UNCHANGED <<store, pulled>>

\* pull_image from wait() on.
PullImageWait ==
    /\ pc = "pull_wait"
    /\ WaitReturns(proc)
    /\ \/ /\ waited' = "ok"
          /\ result' = PullResult(call.image, proc.status)
          /\ pulled' = IF PullResult(call.image, proc.status).kind = "Ok"
                       THEN pulled \cup {call.image} ELSE pulled
       \/ /\ waited' = "err"
          /\ result' = Err(IoError("wait"))
          /\ pulled' = pulled
    /\ pc' = "idle"
    /\ UNCHANGED <<call, proc, started, store, trace>>

\* image_exists_locally up to the launch inside status().
ImageExistsLocally ==
    /\ Ready
    /\ \E image \in ImageNames :
          /\ call' = [op |-> "image_exists_locally", image |-> image]
          /\ \/ /\ proc' = Running(HistoryArgs(image))
                /\ started' = 1
                /\ result' = None
                /\ pc' = "exists_wait"
             \/ /\ proc' = NoProc
                /\ started' = 0
                /\ result' = ExistsResult(image, Err(IoError("spawn")))
                /\ pc' = "idle"
    /\ waited' = "none" /\ trace' = <<>>
    /\ UNCHANGED <<store, pulled>>

\* image_exists_locally from the wait inside status() on.
ImageExistsLocallyWait ==
    /\ pc = "exists_wait"
    /\ WaitReturns(proc)
    /\ \/ /\ waited' = "ok"
          /\ result' = ExistsResult(call.image, Ok(proc.status))
       \/ /\ waited' = "err"
          /\ result' = ExistsResult(call.image, Err(IoError("wait")))
    /\ pc' = "idle"
    /\ UNCHANGED <<call, proc, started, store, pulled, trace>>

\* The running docker process ends.
ProcessEnds ==
    /\ proc.state = "running"
    /\ \E exit_status \in Outcomes(proc.argv, store) :
          /\ proc' = [proc EXCEPT !.state = "exited", !.status = exit_status]
          /\ store' = StoreAfter(proc.argv, exit_status, store)
    /\ UNCHANGED <<pc, call, result, started, waited, pulled, trace>>

\* The caller takes the returned value; only then does it make its next call.
TakeResult ==
    /\ pc = "idle"
    /\ call.op # "none"
    /\ call' = [op |-> "none"]
    /\ result' = None
    /\ proc' = NoProc
    /\ started' = 0 /\ waited' = "none" /\ trace' = <<>>
    /\ UNCHANGED <<pc, store, pulled>>

Next ==
    \/ Deserialize
    \/ Name
    \/ ObtainImage
    \/ ObtainImageWait
    \/ PullImage
    \/ PullImageWait
    \/ ImageExistsLocally
    \/ ImageExistsLocallyWait
    \/ ProcessEnds
    \/ TakeResult

Spec == Init /\ [][Next]_vars

\* -------------------------------------------------------------- properties

\* The call named op has returned and its result has not been taken yet.
Returned(op) == pc = "idle" /\ call.op = op

Launched == started > 0
StatusCollected == Launched /\ waited = "ok"

\* C1: obtain_image on a Build image returns Ok(name()) when docker build is
\* seen to exit with status zero; when it is seen to exit non-zero or by a
\* signal the result is FailedToBuildImage carrying name() (the configured name
\* followed by ":floki") and a non-empty process description; Ok is returned
\* only after an exit with status zero.
C1_BuildOutcome ==
    (Returned("obtain_image") /\ call.self.variant = "Build") =>
        /\ (StatusCollected /\ proc.status = Exited(0)) =>
               /\ result = name(call.self)
               /\ result = Ok(call.self.build.name \o FlokiSuffix)
        /\ (StatusCollected /\ proc.status # Exited(0)) =>
               /\ result.kind = "Err"
               /\ result.err.type = "FailedToBuildImage"
               /\ Ok(result.err.image) = name(call.self)
               /\ result.err.image = call.self.build.name \o FlokiSuffix
               /\ result.err.exit_status.exit_status = proc.status
               /\ Len(result.err.exit_status.process_description) > 0
        /\ result.kind = "Ok" => (StatusCollected /\ proc.status = Exited(0))

C1_Witness ==
    /\ Returned("obtain_image")
    /\ call.self.variant = "Build"
    /\ StatusCollected
    /\ proc.status = Signaled
    /\ result.kind = "Err"
    /\ result.err.type = "FailedToBuildImage"

\* C2 (as stated): image_exists_locally returns Ok(true) exactly when the
\* inspect process ran and exited with code 0, Ok(false) when it ran and ended
\* any other way, and FailedToCheckForImage exactly when the process could not
\* be launched.
C2_Original ==
    Returned("image_exists_locally") =>
        /\ (StatusCollected /\ proc.status = Exited(0)) => result = Ok(TRUE)
        /\ result = Ok(TRUE) => (Launched /\ proc.status = Exited(0))
        /\ (StatusCollected /\ proc.status # Exited(0)) => result = Ok(FALSE)
        /\ result.kind = "Err" <=> ~Launched
        /\ result.kind = "Err" =>
               /\ result.err.type = "FailedToCheckForImage"
               /\ result.err.image = call.image

\* C2 (amended): image_exists_locally returns Ok(true) exactly when status()
\* collects exit code 0, Ok(false) when it collects any other ending, and
\* FailedToCheckForImage{image: name} exactly when status() itself fails: the
\* process cannot be launched, or waiting for it fails.  A launch failure is
\* never reported as Ok(false).
C2_ExistsOutcome ==
    Returned("image_exists_locally") =>
        /\ (StatusCollected /\ proc.status = Exited(0)) => result = Ok(TRUE)
        /\ result = Ok(TRUE) => (StatusCollected /\ proc.status = Exited(0))
        /\ (StatusCollected /\ proc.status # Exited(0)) => result = Ok(FALSE)
        /\ result.kind = "Err" <=> (~Launched \/ waited = "err")
        /\ result.kind = "Err" =>
               /\ result.err.type = "FailedToCheckForImage"
               /\ result.err.image = call.image
        /\ ~Launched => result.kind = "Err"

C2_Witness ==
    /\ Returned("image_exists_locally")
    /\ Launched
    /\ waited = "err"
    /\ result.kind = "Err"
    /\ result.err.type = "FailedToCheckForImage"

\* C3: obtain_image on a Name or Yaml image starts no process and returns
\* exactly what name() returns for the same value; a docker build process
\* exists only inside obtain_image on a Build image.
C3_PassThrough ==
    /\ (Returned("obtain_image") /\ call.self.variant # "Build") =>
           /\ ~Launched
           /\ proc.state = "none"
           /\ result = name(call.self)
    /\ (proc.state # "none" /\ proc.argv[1] = "build") =>
           (call.op = "obtain_image" /\ call.self.variant = "Build")

C3_Witness ==
    /\ Returned("obtain_image")
    /\ call.self.variant = "Yaml"
    /\ ~Launched
    /\ result.kind = "Ok"
    /\ result.val = bar

\* C4: pull_image returns Ok(()) when docker pull is seen to exit with status
\* zero and FailedToPullImage carrying the name argument when it is seen to
\* exit non-zero or by a signal; Ok(()) is returned only after an exit with
\* status zero.
C4_PullOutcome ==
    Returned("pull_image") =>
        /\ (StatusCollected /\ proc.status = Exited(0)) => result = Ok(<<>>)
        /\ (StatusCollected /\ proc.status # Exited(0)) =>
               /\ result.kind = "Err"
               /\ result.err.type = "FailedToPullImage"
               /\ result.err.image = call.image
               /\ result.err.exit_status.exit_status = proc.status
        /\ result.kind = "Ok" => (StatusCollected /\ proc.status = Exited(0))

C4_Witness ==
    /\ Returned("pull_image")
    /\ StatusCollected
    /\ proc.status = Exited(1)
    /\ result.kind = "Err"
    /\ result.err.type = "FailedToPullImage"
    /\ result.err.image = nox

\* C5: every error name(), obtain_image, pull_image and image_exists_locally
\* return is one of the typed errors of the taxonomy.
Taxonomy ==
    {"FailedToFindYamlKey", "FailedToBuildImage", "FailedToPullImage", "FailedToCheckForImage"}

C5_TypedErrorsOnly ==
    (/\ pc = "idle"
     /\ call.op \in {"name", "obtain_image", "pull_image", "image_exists_locally"}
     /\ result.kind = "Err") => result.err.type \in Taxonomy

\* C6: name() on a Yaml image whose file is read and parsed successfully
\* returns the string found at the key path or fails with
\* FailedToFindYamlKey{key, file}; it never panics.
C6_LookupNeverPanics ==
    (Returned("name") /\ call.self.variant = "Yaml" /\ Loads(call.self.yaml)) =>
        \/ result.kind = "Ok"
        \/ /\ result.kind = "Err"
           /\ result.err = FailedToFindYamlKey(call.self.yaml.key, call.self.yaml.file)

\* C7: once pull_image(n) has returned Ok(()), an image_exists_locally(n) whose
\* inspect process runs to its own exit returns Ok(true), and
\* image_exists_locally(m) for a name m that is not in the local store returns
\* Ok(false), whatever else has been pulled before; the inspect process is
\* started for exactly the name passed in.
C7_ExistsFollowsStore ==
    /\ (call.op = "image_exists_locally" /\ Launched) =>
           proc.argv = <<"history", call.image>>
    /\ (/\ Returned("image_exists_locally")
        /\ StatusCollected
        /\ proc.status # Signaled) =>
           /\ call.image \in pulled => result = Ok(TRUE)
           /\ call.image \notin store => result = Ok(FALSE)
    /\ pulled \subseteq store

C7_Witness ==
    /\ Returned("image_exists_locally")
    /\ StatusCollected
    /\ call.image = nox
    /\ pulled = {foo, bar}
    /\ result = Ok(FALSE)

\* C8: deserialization picks the variant by shape, trying the string, then the
\* build mapping, then the yaml mapping, and fails only when none matches: a
\* string gives Name with that string; a build mapping gives Build with name,
\* dockerfile, context and target as written, dockerfile defaulting to
\* "Dockerfile" and context to "."; a yaml mapping gives Yaml.
WellFormed(c, required, optional) ==
    /\ c.kind = "Map"
    /\ required \subseteq DOMAIN c.v
    /\ \A f \in (DOMAIN c.v) \cap (required \cup optional) : c.v[f].kind = "String"

IsBuildEntry(e) ==
    /\ e.kind = "Map"
    /\ "build" \in DOMAIN e.v
    /\ WellFormed(e.v["build"], {"name"}, {"dockerfile", "context", "target"})

IsYamlEntry(e) ==
    /\ e.kind = "Map"
    /\ "yaml" \in DOMAIN e.v
    /\ WellFormed(e.v["yaml"], {"file", "key"}, {})

Given(c, f, default) == IF f \in DOMAIN c.v THEN c.v[f].v ELSE default

C8_VariantByShape ==
    Returned("deserialize") =>
        LET e == call.entry IN
        /\ e.kind = "String" => result = Ok([variant |-> "Name", s |-> e.v])
        /\ IsBuildEntry(e) =>
               /\ result.kind = "Ok"
               /\ result.val.variant = "Build"
               /\ result.val.build.name = e.v["build"].v["name"].v
               /\ result.val.build.dockerfile =
                      Given(e.v["build"], "dockerfile",
                            <<"D", "o", "c", "k", "e", "r", "f", "i", "l", "e">>)
               /\ result.val.build.context = Given(e.v["build"], "context", <<".">>)
               /\ result.val.build.target =
                      (IF "target" \in DOMAIN e.v["build"].v
                       THEN [kind |-> "Some", val |-> e.v["build"].v["target"].v]
                       ELSE [kind |-> "None"])
        /\ (IsYamlEntry(e) /\ ~IsBuildEntry(e)) =>
               /\ result.kind = "Ok"
               /\ result.val.variant = "Yaml"
               /\ result.val.yaml.file = e.v["yaml"].v["file"].v
               /\ result.val.yaml.key = e.v["yaml"].v["key"].v
        /\ result.kind = "Err" <=>
               ~(e.kind = "String" \/ IsBuildEntry(e) \/ IsYamlEntry(e))

C8_Witness ==
    /\ Returned("deserialize")
    /\ IsBuildEntry(call.entry)
    /\ IsYamlEntry(call.entry)
    /\ DOMAIN call.entry.v["build"].v = {"name", "target"}
    /\ result.kind = "Ok"
    /\ result.val.variant = "Build"
    /\ result.val.build.context = <<".">>

\* The segments of the key of the last name() call, and what each one did.
Segments == Split(call.self.yaml.key)
Walked == Returned("name") /\ call.self.variant = "Yaml" /\ trace # <<>>

EntryUnder(node, k) == IF HashHas(node.v, k) THEN HashGet(node.v, k) ELSE BAD_VALUE
ElementAt(node, x) == IF x < Len(node.v) THEN node.v[x + 1] ELSE BAD_VALUE

C10_NoProcessOutlivesCall ==
    /\ started <= 1
    /\ Launched => proc.state # "none"
    /\ pc = "idle" => proc.state # "running"

C10_Witness ==
    /\ Returned("pull_image")
    /\ started = 1
    /\ proc.state = "exited"
    /\ waited = "err"

====
